---- MODULE Spec2Model ----
(***************************************************************************)
(* Pull-diagnostics handlers of helix-term                                 *)
(* (helix-term/src/handlers/diagnostics.rs): the event hooks, the debounce *)
(* hook, the per-request tokio task of pull_diagnostics_for_document and   *)
(* handle_pull_diagnostics_response, over an abstract editor.              *)
(***************************************************************************)
EXTENDS Integers, Sequences, FiniteSets, TLC

\* ------------------------------------------------------------------ bounds
MaxPulls == 3      \* requests issued in one behaviour
MaxChanges == 3    \* DiagnosticsDidChange events from other sources
MaxViews == 3      \* views in the tree
MaxEvents == 3     \* PullDiagnosticsEvents sent in one behaviour
MaxDocs == 2       \* documents opened in one behaviour
DriverDocs == 1    \* documents opened in one behaviour of the driver alone
MaxServers == 2    \* language servers started in one behaviour
MaxChurn == 2      \* servers and documents leaving in one behaviour

\* ------------------------------------------------------------------ values
Modes == {"Normal", "Select", "Insert"}
NoId == "None"
\* The result ids a server gives its Full and its Unchanged reports.
FullIds == {NoId, "r1"}
UnchangedIds == {"r2"}
\* The identifiers a server's diagnostic provider declares: none, or one.
Identifiers == {NoId, "pull"}
\* DiagnosticProvider::Lsp { server_id, identifier }
Lsp(server_id, identifier) == [server_id |-> server_id, identifier |-> identifier]
\* The items of the Full report answering request r: r diagnostics, so that
\* stored diagnostics tell which request's report wrote them.
Items(r) == [i \in 1..r |-> "diag"]
\* The quiet period of the debounce hook (125 ms), in clock ticks of 62.5 ms.
DebounceTicks == 2

VARIABLES
    mode,             \* editor.mode
    views,            \* editor.tree views: id -> [active, events]
    documents,        \* editor.documents: id -> [previous_diagnostic_id, uri, servers]
    language_servers, \* the editor's clients: id -> [initialized, pull, identifier, work]
    diagnostics,      \* editor.diagnostics: <<uri, provider>> -> items
    next_id,          \* the next document, server and request id
    tasks,            \* request id -> the request and its spawned task
    jobs,             \* closures handed to job::dispatch, in submission order
    timeout,          \* the debounce hook's deadline, in ticks from now (0: none)
    hist              \* history the properties are stated over

vars == <<mode, views, documents, language_servers, diagnostics,
          next_id, tasks, jobs, timeout, hist>>

editorVars == <<documents, language_servers, diagnostics, next_id, tasks, jobs>>

\* ------------------------------------------------------------------ views
\* DiagnosticsDidChange hook: unless the editor is in Insert mode, one Refresh
\* is sent to every view's diagnostics handler.
DiagnosticsDidChangeHookNoGate(vs, m) ==
    [v \in DOMAIN vs |-> [vs[v] EXCEPT !.events = @ + 1]]

DiagnosticsDidChangeHook(vs, m) ==
    IF m # "Insert"
    THEN [v \in DOMAIN vs |-> [vs[v] EXCEPT !.events = @ + 1]]
    ELSE vs

\* OnModeSwitch hook: every view's handler is active unless the new mode is
\* Insert.
OnModeSwitchHookRefresh(vs, new_mode) ==
    [v \in DOMAIN vs |->
        [vs[v] EXCEPT !.active = (new_mode # "Insert"),
                      !.events = IF new_mode # "Insert" THEN @ + 1 ELSE @]]

OnModeSwitchHookInverted(vs, new_mode) ==
    [v \in DOMAIN vs |-> [vs[v] EXCEPT !.active = (new_mode = "Insert")]]

OnModeSwitchHook(vs, new_mode) ==
    [v \in DOMAIN vs |-> [vs[v] EXCEPT !.active = (new_mode # "Insert")]]

\* A diagnostics change from a source other than a pull (a push, a clear).
DiagnosticsDidChange ==
    /\ hist.changes < MaxChanges
    /\ hist' = [hist EXCEPT !.changes = @ + 1,
                            !.gated = IF mode = "Insert" THEN @ + 1 ELSE @]
    /\ views' = DiagnosticsDidChangeHook(views, mode)
    /\ UNCHANGED <<mode, editorVars, timeout>>

\* The editor changes mode and dispatches OnModeSwitch.
ModeSwitch(new_mode) ==
    /\ new_mode # mode
    /\ mode' = new_mode
    /\ views' = OnModeSwitchHook(views, new_mode)
    /\ UNCHANGED <<editorVars, timeout, hist>>

\* A view is added to the tree; its handler starts active with an empty
\* channel.
ViewCreate(v) ==
    /\ v \notin DOMAIN views
    /\ views' = [w \in DOMAIN views \cup {v} |->
                    IF w = v THEN [active |-> TRUE, events |-> 0] ELSE views[w]]
    /\ UNCHANGED <<mode, editorVars, timeout, hist>>

\* ------------------------------------------------------------------ editor
\* The editor state a dispatched closure or a hook works on.
Editor ==
    [documents |-> documents, language_servers |-> language_servers,
     diagnostics |-> diagnostics, views |-> views,
     next |-> next_id.request, tasks |-> tasks]

\* Ascending sequence of the elements of a set of ids.
RECURSIVE Ascending(_)
Ascending(S) ==
    IF S = {} THEN <<>>
    ELSE LET m == CHOOSE x \in S : \A y \in S : x <= y
         IN <<m>> \o Ascending(S \ {m})

\* Client::supports_feature(PullDiagnostics): the server declares a diagnostic
\* provider.
supports_feature(ed, s) == ed.language_servers[s].pull

\* Document::supports_language_server: the server is attached to the document.
supports_language_server(ed, d, s) == s \in ed.documents[d].servers

\* Document::language_servers_with_feature(PullDiagnostics).
language_servers_with_feature(ed, d) ==
    {s \in ed.documents[d].servers \cap DOMAIN ed.language_servers :
        supports_feature(ed, s)}

\* Client::mark_work_as_done(token): the progress token leaves the server's set
\* of work in flight; the task's record counts the call.
mark_work_as_done(ed, s, token) ==
    [ed EXCEPT !.language_servers[s].work = @ \ {token},
               !.tasks[token].marks = @ + 1]

\* Editor::handle_lsp_diagnostics(provider, uri, None, items): the stored
\* diagnostics of (uri, provider) are replaced by the items, and
\* DiagnosticsDidChange is dispatched.
handle_lsp_diagnostics(ed, provider, uri, items) ==
    [ed EXCEPT !.diagnostics[<<uri, provider>>] = items,
               !.views = DiagnosticsDidChangeHook(ed.views, mode)]

\* ------------------------------------------------------------------ driver
\* What a request resolves to: a report (Full, Unchanged), Partial, an error
\* that is no RPC error ("Error"), an RPC error without cancellation data
\* ("Rpc"), or an RPC error carrying DiagnosticServerCancellationData.
Result(kind, items, id, retrigger) ==
    [kind |-> kind, items |-> items, id |-> id, retrigger_request |-> retrigger]
NoResult == Result("None", <<>>, NoId, FALSE)
OkResults(r) ==
    {Result("Full", Items(r), id, FALSE) : id \in FullIds}
    \cup {Result("Unchanged", <<>>, id, FALSE) : id \in UnchangedIds}
    \cup {Result("Partial", <<>>, NoId, FALSE)}
ErrResults ==
    {Result("Error", <<>>, NoId, FALSE), Result("Rpc", <<>>, NoId, FALSE)}
    \cup {Result("Cancelled", <<>>, NoId, b) : b \in BOOLEAN}

NewTask(d, s, identifier, prev, pc, origin, parent) ==
    [doc |-> d, srv |-> s, provider |-> Lsp(s, identifier), prev |-> prev,
     pc |-> pc, res |-> NoResult, marks |-> 0, origin |-> origin,
     parent |-> parent]

pull_diagnostics_for_document_nocapture(ed, d, s, origin, parent) ==
    IF ~ed.language_servers[s].pull THEN ed
    ELSE LET r == ed.next
             pc == IF ed.documents[d].uri THEN "pending" ELSE "dropped"
             t == [doc |-> d, srv |-> s,
                   provider |-> Lsp(s, ed.language_servers[s].identifier),
                   prev |-> NoId, pc |-> pc, res |-> NoResult,
                   marks |-> 0, origin |-> origin, parent |-> parent]
         IN [ed EXCEPT !.next = r + 1,
                       !.language_servers[s].work = @ \cup {r},
                       !.tasks = [q \in DOMAIN ed.tasks \cup {r} |->
                                     IF q = r THEN t ELSE ed.tasks[q]]]

\* pull_diagnostics_for_document(doc, language_server). The client builds (and
\* sends) the request with the document's cached previous_diagnostic_id and
\* registers its progress token, unless it declares no diagnostic provider; the
\* task awaiting the response is spawned only for a document with a URI, and
\* holds the document id, the server id and the provider (the server id with
\* the identifier the server's capabilities declare now).
pull_diagnostics_for_document(ed, d, s, origin, parent) ==
    IF ~supports_feature(ed, s) THEN ed
    ELSE LET r == ed.next
             pc == IF ed.documents[d].uri THEN "pending" ELSE "dropped"
             t == NewTask(d, s, ed.language_servers[s].identifier,
                          ed.documents[d].previous_diagnostic_id, pc,
                          origin, parent)
         IN [ed EXCEPT !.next = r + 1,
                       !.language_servers[s].work = @ \cup {r},
                       !.tasks = [q \in DOMAIN ed.tasks \cup {r} |->
                                     IF q = r THEN t ELSE ed.tasks[q]]]

\* One pull per <<document, server>> pair of a sequence, in order.
RECURSIVE PullEach(_, _, _)
PullEach(ed, pairs, origin) ==
    IF pairs = <<>> THEN ed
    ELSE PullEach(pull_diagnostics_for_document(ed, Head(pairs)[1], Head(pairs)[2],
                                               origin, 0),
                  Tail(pairs), origin)

\* The pairs <<d, s>> for the servers of a set, ascending.
PairsOfDoc(d, S) == [i \in 1..Cardinality(S) |-> <<d, Ascending(S)[i]>>]
PairsOfServer(D, s) == [i \in 1..Cardinality(D) |-> <<Ascending(D)[i], s>>]

RECURSIVE Concat(_)
Concat(ss) == IF ss = <<>> THEN <<>> ELSE Head(ss) \o Concat(Tail(ss))

\* handle_pull_diagnostics_response(editor, result, provider, uri, document_id)
handle_pull_diagnostics_response_keep(ed, result, provider, uri, document_id) ==
    IF result.kind = "Partial" THEN ed
    ELSE LET ed1 == IF result.kind = "Full"
                    THEN handle_lsp_diagnostics(ed, provider, uri, result.items)
                    ELSE ed
         IN IF document_id \in DOMAIN ed1.documents /\ result.id # NoId
            THEN [ed1 EXCEPT !.documents[document_id].previous_diagnostic_id = result.id]
            ELSE ed1

handle_pull_diagnostics_response_first(ed, result, provider, uri, document_id) ==
    IF result.kind = "Partial" THEN ed
    ELSE LET ed1 == IF result.kind = "Full"
                    THEN handle_lsp_diagnostics(ed, provider, uri, result.items)
                    ELSE ed
             result_id == result.id
         IN IF /\ document_id \in DOMAIN ed1.documents
               /\ ed1.documents[document_id].previous_diagnostic_id = NoId
            THEN [ed1 EXCEPT !.documents[document_id].previous_diagnostic_id = result_id]
            ELSE ed1

handle_pull_diagnostics_response_partial(ed, result, provider, uri, document_id) ==
    LET ed1 == IF result.kind = "Full"
               THEN handle_lsp_diagnostics(ed, provider, uri, result.items)
               ELSE ed
        result_id == result.id
    IN IF document_id \in DOMAIN ed1.documents
       THEN [ed1 EXCEPT !.documents[document_id].previous_diagnostic_id = result_id]
       ELSE ed1

handle_pull_diagnostics_response_replace(ed, result, provider, uri, document_id) ==
    IF result.kind = "Partial" THEN ed
    ELSE LET ed1 == handle_lsp_diagnostics(ed, provider, uri, result.items)
         IN IF document_id \in DOMAIN ed1.documents
            THEN [ed1 EXCEPT !.documents[document_id].previous_diagnostic_id = result.id]
            ELSE ed1

handle_pull_diagnostics_response(ed, result, provider, uri, document_id) ==
    IF result.kind = "Partial" THEN ed
    ELSE LET ed1 == IF result.kind = "Full"
                    THEN handle_lsp_diagnostics(ed, provider, uri, result.items)
                    ELSE ed
             result_id == result.id
         IN IF document_id \in DOMAIN ed1.documents
            THEN [ed1 EXCEPT !.documents[document_id].previous_diagnostic_id = result_id]
            ELSE ed1

\* The closure dispatched for an Ok response (lines 152-159).
ResponseClosureCurrent(ed, r) ==
    LET t == ed.tasks[r]
        ed1 == IF t.srv \in DOMAIN ed.language_servers
               THEN mark_work_as_done(ed, t.srv, r)
               ELSE ed
        provider == IF t.srv \in DOMAIN ed.language_servers
                    THEN Lsp(t.srv, ed.language_servers[t.srv].identifier)
                    ELSE t.provider
    IN handle_pull_diagnostics_response(ed1, t.res, provider, t.doc, t.doc)

ResponseClosureFresh(ed, r) ==
    LET t == ed.tasks[r]
        ed1 == IF t.srv \in DOMAIN ed.language_servers
               THEN mark_work_as_done(ed, t.srv, r)
               ELSE ed
    IN IF Len(ed.diagnostics[<<t.doc, t.provider>>]) > r THEN ed1
       ELSE handle_pull_diagnostics_response(ed1, t.res, t.provider, t.doc, t.doc)

ResponseClosure(ed, r) ==
    LET t == ed.tasks[r]
        ed1 == IF t.srv \in DOMAIN ed.language_servers
               THEN mark_work_as_done(ed, t.srv, r)
               ELSE ed
    IN handle_pull_diagnostics_response(ed1, t.res, t.provider, t.doc, t.doc)

\* The closure dispatched after the backoff of a retrigger cancellation
\* (lines 176-186).
RetryClosureTwice(ed, r) ==
    LET t == ed.tasks[r]
    IN IF t.doc \in DOMAIN ed.documents /\ t.srv \in DOMAIN ed.language_servers
       THEN LET ed1 == mark_work_as_done(ed, t.srv, r)
            IN IF supports_language_server(ed1, t.doc, t.srv)
               THEN pull_diagnostics_for_document(
                        pull_diagnostics_for_document(ed1, t.doc, t.srv, "retry", r),
                        t.doc, t.srv, "retry", r)
               ELSE ed1
       ELSE ed

RetryClosureUnchecked(ed, r) ==
    LET t == ed.tasks[r]
    IN IF t.doc \in DOMAIN ed.documents /\ t.srv \in DOMAIN ed.language_servers
       THEN pull_diagnostics_for_document(mark_work_as_done(ed, t.srv, r),
                                          t.doc, t.srv, "retry", r)
       ELSE ed

RetryClosure(ed, r) ==
    LET t == ed.tasks[r]
    IN IF t.doc \in DOMAIN ed.documents /\ t.srv \in DOMAIN ed.language_servers
       THEN LET ed1 == mark_work_as_done(ed, t.srv, r)
            IN IF supports_language_server(ed1, t.doc, t.srv)
               THEN pull_diagnostics_for_document(ed1, t.doc, t.srv, "retry", r)
               ELSE ed1
       ELSE ed

\* The closure of dispatch_pull_diagnostic_for_open_documents (lines 102-114).
SweepClosureEdited(ed) ==
    LET D == Ascending(DOMAIN ed.documents \cap {hist.edited})
        servers(d) == {s \in language_servers_with_feature(ed, d) :
                          ed.language_servers[s].initialized}
    IN PullEach(ed, Concat([i \in 1..Len(D) |-> PairsOfDoc(D[i], servers(D[i]))]),
                "sweep")

SweepClosure(ed) ==
    LET D == Ascending(DOMAIN ed.documents)
        servers(d) == {s \in language_servers_with_feature(ed, d) :
                          ed.language_servers[s].initialized}
    IN PullEach(ed, Concat([i \in 1..Len(D) |-> PairsOfDoc(D[i], servers(D[i]))]),
                "sweep")

\* The editor after a hook or closure: every variable it may have written.
Install(ed, ids) ==
    /\ ed.next <= MaxPulls + 1
    /\ documents' = ed.documents
    /\ language_servers' = ed.language_servers
    /\ diagnostics' = ed.diagnostics
    /\ views' = ed.views
    /\ tasks' = ed.tasks
    /\ next_id' = [ids EXCEPT !.request = ed.next]

\* ------------------------------------------------------------------ events
\* A language server is started: registered with the editor, not initialized,
\* its capabilities not known yet.
ServerStart ==
    /\ next_id.server <= MaxServers
    /\ language_servers' =
          [s \in DOMAIN language_servers \cup {next_id.server} |->
              IF s = next_id.server
              THEN [initialized |-> FALSE, pull |-> FALSE, identifier |-> NoId,
                    work |-> {}]
              ELSE language_servers[s]]
    /\ next_id' = [next_id EXCEPT !.server = @ + 1]
    /\ UNCHANGED <<mode, views, documents, diagnostics, tasks, jobs,
                   timeout, hist>>

\* LanguageServerInitialized hook (lines 60-73).
LanguageServerInitializedHookAll(ed, server_id) ==
    IF supports_feature(ed, server_id)
    THEN PullEach(ed, PairsOfServer(DOMAIN ed.documents, server_id), "init")
    ELSE ed

LanguageServerInitializedHook(ed, server_id) ==
    IF supports_feature(ed, server_id)
    THEN PullEach(ed, PairsOfServer({d \in DOMAIN ed.documents :
                                        supports_language_server(ed, d, server_id)},
                                    server_id),
                  "init")
    ELSE ed

\* A server finishes its initialization, declaring a diagnostic provider or
\* none, and LanguageServerInitialized is dispatched.
ServerInitialized(s, pull) ==
    /\ s \in DOMAIN language_servers
    /\ ~language_servers[s].initialized
    /\ Install(LanguageServerInitializedHook(
           [Editor EXCEPT !.language_servers[s].initialized = TRUE,
                          !.language_servers[s].pull = pull], s), next_id)
    /\ UNCHANGED <<mode, jobs, timeout, hist>>

\* One more of the events that take a server or a document away.
Churn == hist.churn < MaxChurn /\ hist' = [hist EXCEPT !.churn = @ + 1]

\* A server exits: it leaves the registry and every document.
ServerRemove(s) ==
    /\ Churn
    /\ s \in DOMAIN language_servers
    /\ language_servers' = [q \in DOMAIN language_servers \ {s} |-> language_servers[q]]
    /\ documents' = [d \in DOMAIN documents |->
                        [documents[d] EXCEPT !.servers = @ \ {s}]]
    /\ UNCHANGED <<mode, views, diagnostics, next_id, tasks, jobs,
                   timeout>>

\* A server registers or unregisters its diagnostic provider dynamically.
CapabilityChange(s) ==
    /\ Churn
    /\ s \in DOMAIN language_servers
    /\ language_servers[s].initialized
    /\ language_servers' = [language_servers EXCEPT ![s].pull = ~@]
    /\ UNCHANGED <<mode, views, documents, diagnostics, next_id, tasks,
                   jobs, timeout>>

\* An initialized server registers its diagnostic provider anew, with an
\* identifier or without.
ProviderRegistration(s, identifier) ==
    /\ s \in DOMAIN language_servers
    /\ language_servers[s].initialized
    /\ language_servers[s].identifier # identifier
    /\ language_servers' = [language_servers EXCEPT ![s].pull = TRUE,
                                                    ![s].identifier = identifier]
    /\ UNCHANGED <<mode, views, documents, diagnostics, next_id, tasks,
                   jobs, timeout, hist>>

\* DocumentDidOpen hook (lines 49-58).
DocumentDidOpenHook(ed, d) ==
    PullEach(ed, PairsOfDoc(d, language_servers_with_feature(ed, d)), "open")

\* A document is opened, with a URI or without, attached to some of the
\* servers, and DocumentDidOpen is dispatched.
DocumentOpen(uri, S) ==
    /\ next_id.document <= MaxDocs
    /\ S \subseteq DOMAIN language_servers
    /\ LET d == next_id.document
           doc == [previous_diagnostic_id |-> NoId, uri |-> uri, servers |-> S]
           ed == [Editor EXCEPT !.documents =
                     [q \in DOMAIN documents \cup {d} |->
                         IF q = d THEN doc ELSE documents[q]]]
       IN Install(DocumentDidOpenHook(ed, d), [next_id EXCEPT !.document = d + 1])
    /\ UNCHANGED <<mode, jobs, timeout, hist>>

\* A document is closed.
DocumentClose(d) ==
    /\ Churn
    /\ d \in DOMAIN documents
    /\ documents' = [q \in DOMAIN documents \ {d} |-> documents[q]]
    /\ UNCHANGED <<mode, views, language_servers, diagnostics, next_id,
                   tasks, jobs, timeout>>

\* A server is detached from a document.
Detach(d, s) ==
    /\ Churn
    /\ d \in DOMAIN documents
    /\ s \in documents[d].servers
    /\ documents' = [documents EXCEPT ![d].servers = @ \ {s}]
    /\ UNCHANGED <<mode, views, language_servers, diagnostics, next_id,
                   tasks, jobs, timeout>>

\* ------------------------------------------------------------------ debounce
\* PullDiagnosticsHandler::handle_event (lines 88-94): the deadline is a quiet
\* period from now, whatever it was.
handle_event_keep(old_timeout) == IF old_timeout > 0 THEN old_timeout ELSE DebounceTicks

handle_event(old_timeout) == DebounceTicks

\* PullDiagnosticsHandler::finish_debounce (lines 96-98):
\* dispatch_pull_diagnostic_for_open_documents hands its closure to
\* job::dispatch_blocking.
finish_debounce(queue) == Append(queue, [kind |-> "sweep", req |-> 0])

\* DocumentDidChange hook (lines 38-47), and the debounce hook receiving the
\* event it sends. The history keeps the document edited last and counts the
\* events, the bursts (an event that comes a full quiet period after the one
\* before it, or first, starts one) and the ticks since the last event.
DocumentChangeAlways(d) ==
    /\ d \in DOMAIN documents
    /\ hist.events < MaxEvents
    /\ timeout' = handle_event(timeout)
    /\ hist' = [hist EXCEPT !.edited = d,
                            !.events = @ + 1,
                            !.bursts = IF hist.quiet = DebounceTicks
                                       THEN @ + 1 ELSE @,
                            !.quiet = 0]
    /\ UNCHANGED <<mode, views, editorVars>>

DocumentChange(d) ==
    /\ d \in DOMAIN documents
    /\ hist.events < MaxEvents
    /\ IF language_servers_with_feature(Editor, d) # {}
       THEN /\ timeout' = handle_event(timeout)
            /\ hist' = [hist EXCEPT !.edited = d,
                                    !.events = @ + 1,
                                    !.bursts = IF hist.quiet = DebounceTicks
                                               THEN @ + 1 ELSE @,
                                    !.quiet = 0]
       ELSE /\ timeout' = timeout
            /\ hist' = [hist EXCEPT !.edited = d]
    /\ UNCHANGED <<mode, views, editorVars>>

\* One clock tick passes while the debounce hook waits: its deadline comes
\* one tick nearer; when it is reached, finish_debounce (lines 96-98)
\* dispatches the sweep.
Tick ==
    /\ timeout > 0
    /\ timeout' = timeout - 1
    /\ jobs' = IF timeout = 1 THEN finish_debounce(jobs) ELSE jobs
    /\ hist' = [hist EXCEPT !.quiet = IF @ < DebounceTicks THEN @ + 1 ELSE @]
    /\ UNCHANGED <<mode, views, documents, language_servers, diagnostics,
                   next_id, tasks>>

\* ------------------------------------------------------------------ tasks
\* The spawned task after its request failed (lines 162-190): "sleeping" when
\* the error carries cancellation data asking for a retrigger, else finished.
AfterFailureRpcRetry(err) ==
    IF err.kind = "Rpc" \/ (err.kind = "Cancelled" /\ err.retrigger_request)
    THEN "sleeping" ELSE "done"

AfterFailureAnyCancel(err) ==
    IF err.kind = "Cancelled" THEN "sleeping" ELSE "done"

AfterFailure(err) ==
    IF err.kind = "Cancelled" /\ err.retrigger_request THEN "sleeping" ELSE "done"

\* A finished task: of its request the history is kept (where it was issued,
\* what kind of result it had, the count of mark_work_as_done calls).
Finished(t) ==
    [NewTask(0, 0, NoId, NoId, "done", t.origin, t.parent) EXCEPT
        !.marks = t.marks,
        !.res = [t.res EXCEPT !.items = <<>>]]

\* The request's future resolves and the task runs to its next await
\* (lines 150-174). A server that has exited answers nothing: its requests
\* fail in the transport.
Resolve(r, res) ==
    /\ r \in DOMAIN tasks
    /\ tasks[r].pc = "pending"
    /\ tasks[r].srv \notin DOMAIN language_servers => res.kind = "Error"
    /\ IF res \in OkResults(r)
       THEN /\ tasks' = [tasks EXCEPT ![r].pc = "dispatched", ![r].res = res]
            /\ jobs' = Append(jobs, [kind |-> "resp", req |-> r])
       ELSE /\ tasks' = [tasks EXCEPT ![r] =
                        IF AfterFailure(res) = "sleeping"
                        THEN [@ EXCEPT !.pc = "sleeping", !.res = res]
                        ELSE Finished([@ EXCEPT !.res = res])]
            /\ jobs' = jobs
    /\ UNCHANGED <<mode, views, documents, language_servers, diagnostics,
                   next_id, timeout, hist>>

\* The backoff sleep of 500 ms (line 174) is over: the task dispatches the
\* retry closure and awaits it (lines 176-187).
Wake(r) ==
    /\ r \in DOMAIN tasks
    /\ tasks[r].pc = "sleeping"
    /\ tasks' = [tasks EXCEPT ![r].pc = "dispatched"]
    /\ jobs' = Append(jobs, [kind |-> "retry", req |-> r])
    /\ UNCHANGED <<mode, views, documents, language_servers, diagnostics,
                   next_id, timeout, hist>>

\* What the closure at the head of the dispatch queue does to the editor.
RunClosure(ed, job) ==
    IF job.kind = "resp" THEN ResponseClosure(ed, job.req)
    ELSE IF job.kind = "retry" THEN RetryClosure(ed, job.req)
    ELSE SweepClosure(ed)

\* The owner thread runs the next dispatched closure; the task awaiting it
\* finishes.
RunJob ==
    /\ jobs # <<>>
    /\ LET job == Head(jobs)
           ed == RunClosure(Editor, job)
       IN /\ Install(IF job.req = 0 THEN ed
                     ELSE [ed EXCEPT !.tasks[job.req] = Finished(@)], next_id)
          /\ hist' = [hist EXCEPT !.swept = IF job.kind = "sweep" THEN @ + 1 ELSE @]
    /\ jobs' = Tail(jobs)
    /\ UNCHANGED <<mode, timeout>>

\* ------------------------------------------------------------------ system
\* The keys of the stored diagnostics: a document's URI and a provider.
Keys == (1..MaxDocs) \X {Lsp(s, i) : s \in 1..MaxServers, i \in Identifiers}

Init ==
    /\ mode = "Normal"
    /\ views = [v \in {1} |-> [active |-> TRUE, events |-> 0]]
    /\ documents = <<>>
    /\ language_servers = <<>>
    /\ diagnostics = [k \in Keys |-> <<>>]
    /\ next_id = [document |-> 1, server |-> 1, request |-> 1]
    /\ tasks = <<>>
    /\ jobs = <<>>
    /\ timeout = 0
    /\ hist = [events |-> 0, bursts |-> 0, swept |-> 0, quiet |-> DebounceTicks,
               churn |-> 0, changes |-> 0, gated |-> 0, edited |-> 0]

\* The visibility gate: modes, views and diagnostics changes.
GateNext ==
    \/ DiagnosticsDidChange
    \/ \E m \in Modes : ModeSwitch(m)
    \/ \E v \in 1..MaxViews : ViewCreate(v)

\* Servers and documents coming.
SetupNext ==
    \/ ServerStart
    \/ \E s \in 1..MaxServers, pull \in BOOLEAN : ServerInitialized(s, pull)
    \/ \E uri \in BOOLEAN, S \in SUBSET (1..MaxServers) : DocumentOpen(uri, S)

\* Servers and documents going.
ChurnNext ==
    \/ \E s \in 1..MaxServers : ServerRemove(s)
    \/ \E s \in 1..MaxServers : CapabilityChange(s)
    \/ \E d \in 1..MaxDocs : DocumentClose(d)
    \/ \E d \in 1..MaxDocs, s \in 1..MaxServers : Detach(d, s)

\* The requests' tasks and the owner thread's dispatch queue.
TaskNext ==
    \/ \E r \in 1..MaxPulls : \E res \in OkResults(r) \cup ErrResults : Resolve(r, res)
    \/ \E r \in 1..MaxPulls : Wake(r)
    \/ RunJob

DebounceNext ==
    \E d \in 1..MaxDocs : DocumentChange(d)

RegistrationNext ==
    \E s \in 1..MaxServers, i \in Identifiers : ProviderRegistration(s, i)

Next ==
    \/ GateNext \/ SetupNext \/ ChurnNext \/ RegistrationNext
    \/ TaskNext \/ DebounceNext \/ Tick

Spec == Init /\ [][Next]_vars

\* The request driver: immediate pulls, responses and retries, with servers
\* and documents leaving, for documents with a URI and servers that declare
\* a diagnostic provider when they are initialized.
DriverNext ==
    \/ ServerStart
    \/ \E s \in 1..MaxServers : ServerInitialized(s, TRUE)
    \/ /\ next_id.document <= DriverDocs
       /\ \E S \in SUBSET (1..MaxServers) : DocumentOpen(TRUE, S)
    \/ ChurnNext \/ TaskNext
SpecDriver == Init /\ [][DriverNext]_vars

\* The request driver with providers registering anew while requests are
\* outstanding.
CaptureNext == DriverNext \/ RegistrationNext
SpecCapture == Init /\ [][CaptureNext]_vars

\* Every issuance point at once: immediate pulls, debounce sweeps, retries
\* and responses, over documents and servers that stay.
RaceNext ==
    \/ ServerStart
    \/ \E s \in 1..MaxServers : ServerInitialized(s, TRUE)
    \/ /\ next_id.document <= DriverDocs
       /\ \E S \in SUBSET (1..MaxServers) : DocumentOpen(TRUE, S)
    \/ TaskNext \/ DebounceNext \/ Tick
SpecRace == Init /\ [][RaceNext]_vars

\* The visibility gate alone.
SpecGate == Init /\ [][GateNext]_vars

\* The debounce hook: document changes, the clock and the sweeps, over
\* documents and servers that stay.
BatchNext == SetupNext \/ DebounceNext \/ Tick \/ RunJob
SpecBatch == Init /\ [][BatchNext]_vars

\* The debounce hook with servers and documents leaving between the event and
\* the sweep.
SweepNext == BatchNext \/ ChurnNext
SpecSweep == Init /\ [][SweepNext]_vars

\* Mode switches among everything the other hooks do: documents opened and
\* edited, servers initialized, the debounce clock and its sweeps.
SwitchNext ==
    \/ \E m \in Modes : ModeSwitch(m)
    \/ \E v \in 1..MaxViews : ViewCreate(v)
    \/ ServerStart
    \/ \E s \in 1..MaxServers : ServerInitialized(s, TRUE)
    \/ /\ next_id.document <= DriverDocs
       /\ \E S \in SUBSET (1..MaxServers) : DocumentOpen(TRUE, S)
    \/ DebounceNext \/ Tick \/ RunJob
SpecSwitch == Init /\ [][SwitchNext]_vars

\* ------------------------------------------------------------------ claims
\* The owner thread runs the closure dispatched for request r's Ok response.
Processing(r) ==
    /\ jobs # <<>>
    /\ Head(jobs) = [kind |-> "resp", req |-> r]
    /\ jobs' = Tail(jobs)
    /\ tasks'[r].pc = "done"

\* The owner thread runs the retry closure of the cancelled request r.
Retrying(r) ==
    /\ jobs # <<>>
    /\ Head(jobs) = [kind |-> "retry", req |-> r]
    /\ jobs' = Tail(jobs)
    /\ tasks'[r].pc = "done"

\* The requests issued by the step.
Issued == DOMAIN tasks' \ DOMAIN tasks

\* C1: every finished request has had exactly one mark_work_as_done call for
\* its progress token.
C1_ExactlyOneMark ==
    \A r \in DOMAIN tasks : tasks[r].pc = "done" => tasks[r].marks = 1

\* C2: processing a Full report makes the stored diagnostics of its provider
\* exactly the report's items, leaves every other provider's alone, and makes
\* the cached token of the document, if it is still open, the report's result
\* id, absent when the report has none.
C2_FullReportApplies ==
    [][\A r \in DOMAIN tasks :
          Processing(r) /\ tasks[r].res.kind = "Full" =>
             LET t == tasks[r] IN
             /\ diagnostics'[<<t.doc, t.provider>>] = t.res.items
             /\ \A k \in Keys \ {<<t.doc, t.provider>>} : diagnostics'[k] = diagnostics[k]
             /\ DOMAIN documents' = DOMAIN documents
             /\ t.doc \in DOMAIN documents =>
                   documents'[t.doc].previous_diagnostic_id = t.res.id]_vars

\* The Full reports of two requests of one document were processed, the one
\* with result id "r1" first and the one without a result id last: the items
\* of both are stored, each under its provider, and the token is absent.
C2_Witness ==
    \E d \in DOMAIN documents, q, r \in DOMAIN tasks :
        /\ tasks[q].pc = "done" /\ tasks[q].res.kind = "Full" /\ tasks[q].res.id = "r1"
        /\ tasks[r].pc = "done" /\ tasks[r].res.kind = "Full" /\ tasks[r].res.id = NoId
        /\ diagnostics[<<d, Lsp(1, NoId)>>] = Items(q)
        /\ diagnostics[<<d, Lsp(2, NoId)>>] = Items(r)
        /\ documents[d].previous_diagnostic_id = NoId

\* C3: processing an Unchanged report leaves the stored diagnostics of every
\* provider as they were, sends no Refresh, and changes of the documents only
\* the cached token of its document, to the report's result id.
C3_UnchangedReport ==
    [][\A r \in DOMAIN tasks :
          Processing(r) /\ tasks[r].res.kind = "Unchanged" =>
             LET t == tasks[r] IN
             /\ diagnostics' = diagnostics
             /\ views' = views
             /\ documents' =
                   IF t.doc \in DOMAIN documents
                   THEN [documents EXCEPT ![t.doc].previous_diagnostic_id = t.res.id]
                   ELSE documents]_vars

\* Diagnostics stored by a Full report are still there after an Unchanged
\* report moved the token to "r2".
C3_Witness ==
    \E d \in DOMAIN documents, s \in 1..MaxServers :
        /\ documents[d].previous_diagnostic_id = "r2"
        /\ diagnostics[<<d, Lsp(s, NoId)>>] # <<>>
        /\ \E r \in DOMAIN tasks : tasks[r].pc = "done" /\ tasks[r].res.kind = "Unchanged"

\* C4: a request is re-issued only by the retry closure of a request of the
\* same document and server that failed with cancellation data asking for a
\* retrigger, which is dispatched only by a task coming out of its backoff
\* sleep; the closure issues at most one request, and a request has at most
\* one retry. A request that fails otherwise finishes with no request issued.
C4_CancellationRetry ==
    /\ [](\A q, r \in DOMAIN tasks :
            q # r /\ tasks[q].origin = "retry" /\ tasks[r].origin = "retry"
                => tasks[q].parent # tasks[r].parent)
    /\ [][/\ \A r \in Issued :
              tasks'[r].origin = "retry" =>
                 /\ Cardinality(Issued) = 1
                 /\ tasks'[r].parent \in DOMAIN tasks
                 /\ Retrying(tasks'[r].parent)
                 /\ LET p == tasks[tasks'[r].parent] IN
                    /\ p.pc = "dispatched"
                    /\ p.res.kind = "Cancelled" /\ p.res.retrigger_request
                    /\ tasks'[r].doc = p.doc /\ tasks'[r].srv = p.srv
          /\ \A p \in DOMAIN tasks :
              /\ tasks[p].pc = "pending" /\ tasks'[p].pc = "done" => Issued = {}
              /\ tasks[p].pc # "dispatched" /\ tasks'[p].pc = "dispatched"
                 /\ tasks'[p].res.kind = "Cancelled" => tasks[p].pc = "sleeping"
              /\ tasks'[p].pc = "sleeping" =>
                    tasks'[p].res.kind = "Cancelled" /\ tasks'[p].res.retrigger_request
         ]_vars

\* A retry of a retry is in flight: request 3 retries request 2, which
\* retried request 1.
C4_Witness ==
    /\ DOMAIN tasks = {1, 2, 3}
    /\ tasks[3].pc = "pending" /\ tasks[3].origin = "retry" /\ tasks[3].parent = 2
    /\ tasks[2].pc = "done" /\ tasks[2].origin = "retry" /\ tasks[2].parent = 1

\* C5: the retry closure re-issues the request exactly when it finds the
\* document open, the server registered and attached to the document, and
\* the server still declaring a diagnostic provider.
C5_RetryRevalidates ==
    [][\A p \in DOMAIN tasks :
          Retrying(p) =>
             LET t == tasks[p] IN
             (Issued # {}) <=>
                /\ t.doc \in DOMAIN documents
                /\ t.srv \in DOMAIN language_servers
                /\ t.srv \in documents[t.doc].servers
                /\ language_servers[t.srv].pull]_vars

\* A retry was abandoned: a request cancelled with a retrigger is finished,
\* no request retries it, and requests could still be issued.
C5_Witness ==
    /\ next_id.request <= MaxPulls
    /\ hist.churn >= 1
    /\ \E p \in DOMAIN tasks :
          /\ tasks[p].pc = "done"
          /\ tasks[p].res.kind = "Cancelled" /\ tasks[p].res.retrigger_request
          /\ \A r \in DOMAIN tasks : tasks[r].parent # p

\* C7: processing an Ok response whose document is closed or whose server is
\* gone changes neither the stored diagnostics nor any document.
C7_StaleResponseDropped ==
    [][\A r \in DOMAIN tasks :
          /\ Processing(r)
          /\ \/ tasks[r].doc \notin DOMAIN documents
             \/ tasks[r].srv \notin DOMAIN language_servers
          => diagnostics' = diagnostics /\ documents' = documents]_vars

\* C8, as claimed: a Full report answering an earlier-issued pull never
\* replaces the stored diagnostics written by the report answering a
\* later-issued pull (stored items tell the request that wrote them).
C8_StaleNeverOverwrites ==
    [][\A r \in DOMAIN tasks :
          Processing(r) /\ tasks[r].res.kind = "Full" =>
             LET k == <<tasks[r].doc, tasks[r].provider>> IN
             Len(diagnostics[k]) > r => diagnostics'[k] = diagnostics[k]]_vars

\* C8, amended: stored diagnostics follow the order in which responses are
\* processed. They change only when the closure at the head of the dispatch
\* queue carries a Full report, and then they become that report's items,
\* also when a later-issued pull's report wrote the ones they replace.
C8_LastProcessedWins ==
    [][/\ \A k \in Keys :
              diagnostics'[k] # diagnostics[k] =>
                 \E r \in DOMAIN tasks :
                    /\ Processing(r) /\ tasks[r].res.kind = "Full"
                    /\ k = <<tasks[r].doc, tasks[r].provider>>
                    /\ diagnostics'[k] = Items(r)
       /\ \A r \in DOMAIN tasks :
              /\ Processing(r) /\ tasks[r].res.kind = "Full"
              /\ Len(diagnostics[<<tasks[r].doc, tasks[r].provider>>]) > r
              => diagnostics'[<<tasks[r].doc, tasks[r].provider>>] = Items(r)]_vars

\* The Full reports of requests 1 and 2 were both processed for one document
\* and provider, and the stored diagnostics are those of request 1: the
\* earlier-issued pull's report was processed last.
C8_Witness ==
    \E s \in 1..MaxServers :
        /\ {1, 2} \subseteq DOMAIN tasks
        /\ diagnostics[<<1, Lsp(s, NoId)>>] = Items(1)
        /\ \A k \in Keys \ {<<1, Lsp(s, NoId)>>} : diagnostics[k] = <<>>
        /\ tasks[1].pc = "done" /\ tasks[1].res.kind = "Full"
        /\ tasks[2].pc = "done" /\ tasks[2].res.kind = "Full"

\* The sweeps the debounce hook has asked for: those run and those waiting in
\* the dispatch queue.
Sweeps ==
    hist.swept + Cardinality({i \in 1..Len(jobs) : jobs[i].kind = "sweep"})

\* C6: every burst of PullDiagnosticsEvents (events each less than a quiet
\* period after the one before) produces exactly one sweep, fired when a full
\* quiet period has passed since the burst's last event: while the hook is
\* idle there are as many sweeps as bursts, while it is pending the deadline
\* is a quiet period after the last event and the current burst has no sweep
\* yet; there is never a sweep without an event.
C6_DebounceCoalescing ==
    /\ hist.quiet = DebounceTicks => timeout = 0 /\ Sweeps = hist.bursts
    /\ hist.quiet < DebounceTicks =>
          timeout = DebounceTicks - hist.quiet /\ Sweeps + 1 = hist.bursts
    /\ hist.bursts <= hist.events

\* Two bursts, one of two events, and two sweeps.
C6_Witness ==
    /\ hist.events = 3
    /\ hist.bursts = 2
    /\ Sweeps = 2
    /\ timeout = 0

\* C9: a DiagnosticsDidChange event dispatched while the editor is in Insert
\* mode sends no Refresh to any view; dispatched in any other mode, it sends
\* one Refresh to every view.
C9_ModeGating ==
    [][hist'.changes # hist.changes =>
          /\ DOMAIN views' = DOMAIN views
          /\ \A v \in DOMAIN views :
                views'[v].events =
                    views[v].events + (IF mode = "Insert" THEN 0 ELSE 1)]_vars

\* An event was held back in Insert mode and, out of Insert mode again, an
\* event reached a view that was there all along.
C9_Witness ==
    /\ mode # "Insert"
    /\ hist.gated >= 1
    /\ hist.changes = hist.gated + 1
    /\ views[1].events = 1

\* C10: no step sends a Refresh to a view whose diagnostics handler is
\* inactive.
C10_NoRefreshWhenInactive ==
    [][\A v \in DOMAIN views \cap DOMAIN views' :
          views'[v].events > views[v].events => views[v].active]_vars

\* An event was dispatched while two views were inactive, and neither got it.
C10_Witness ==
    /\ hist.gated >= 1
    /\ Cardinality(DOMAIN views) = 2
    /\ \A v \in DOMAIN views : ~views[v].active /\ views[v].events = 0

\* C11: a mode switch makes every view's handler active exactly when the new
\* mode is not Insert and changes nothing else: no view gets a Refresh, no
\* request is issued, nothing is dispatched, the debounce deadline and the
\* count of PullDiagnosticsEvents stay as they were.
C11_ModeSwitchFrame ==
    [][mode' # mode =>
          /\ views' = [v \in DOMAIN views |->
                          [views[v] EXCEPT !.active = (mode' # "Insert")]]
          /\ Issued = {}
          /\ UNCHANGED <<editorVars, timeout, hist>>]_vars

\* The editor went to Insert mode while a PullDiagnosticsEvent was waiting
\* for its deadline and a request was outstanding: two views are inactive,
\* the deadline and the request are still there.
C11_Witness ==
    /\ mode = "Insert"
    /\ Cardinality(DOMAIN views) = 2
    /\ \A v \in DOMAIN views : ~views[v].active
    /\ timeout = 1
    /\ \E r \in DOMAIN tasks : tasks[r].pc = "pending"

\* C12: a document-changed event issues no request and dispatches nothing
\* itself. For a document with an attached server declaring a diagnostic
\* provider it sends exactly one PullDiagnosticsEvent, which sets the debounce
\* deadline a quiet period ahead; for any other document it sends none and
\* leaves the deadline alone. Requests of origin "sweep" are issued only by
\* the sweep closure at the head of the dispatch queue.
C12_EditsAreDebounced ==
    [][/\ (hist'.edited # hist.edited \/ hist'.events # hist.events) =>
             LET d == hist'.edited IN
             /\ d \in DOMAIN documents
             /\ Issued = {}
             /\ UNCHANGED <<editorVars, mode, views>>
             /\ IF language_servers_with_feature(Editor, d) # {}
                THEN hist'.events = hist.events + 1 /\ timeout' = DebounceTicks
                ELSE hist'.events = hist.events /\ timeout' = timeout
       /\ \A r \in Issued :
             tasks'[r].origin = "sweep" =>
                /\ jobs # <<>>
                /\ Head(jobs).kind = "sweep"
                /\ jobs' = Tail(jobs)
      ]_vars

\* Document 1, which no server declaring a diagnostic provider is attached
\* to, was edited last and sent nothing, while an edit of document 2 did
\* send an event whose sweep then issued a request.
C12_Witness ==
    /\ hist.edited = 1
    /\ hist.events = 1
    /\ 1 \in DOMAIN documents
    /\ language_servers_with_feature(Editor, 1) = {}
    /\ \E r \in DOMAIN tasks : tasks[r].origin = "sweep" /\ tasks[r].doc = 2

\* The <<document, server>> pairs a sweep has to pull for: the document is
\* open, the server is attached to it, declares a diagnostic provider and is
\* initialized.
SweepPairs ==
    {p \in (DOMAIN documents) \X (DOMAIN language_servers) :
        /\ p[2] \in documents[p[1]].servers
        /\ language_servers[p[2]].pull
        /\ language_servers[p[2]].initialized}

\* C13: the sweep closure issues exactly one request for every pair to pull
\* for in the state it runs in, whichever documents were edited, and no other
\* request; none goes to a server that is not initialized.
C13_SweepCoversOpenDocuments ==
    [][(jobs # <<>> /\ Head(jobs).kind = "sweep" /\ jobs' = Tail(jobs)) =>
          /\ {<<tasks'[r].doc, tasks'[r].srv>> : r \in Issued} = SweepPairs
          /\ Cardinality(Issued) = Cardinality(SweepPairs)
          /\ \A r \in Issued :
                /\ tasks'[r].origin = "sweep"
                /\ language_servers[tasks'[r].srv].initialized]_vars

\* One event, sent by an edit of document 1, and one sweep: it issued a
\* request for document 1 and one for document 2, and none for a server
\* attached but not initialized.
C13_Witness ==
    /\ hist.events = 1 /\ hist.swept = 1
    /\ \E q, r \in DOMAIN tasks :
          /\ tasks[q].origin = "sweep" /\ tasks[q].doc = 1
          /\ tasks[r].origin = "sweep" /\ tasks[r].doc = 2
    /\ \E s \in DOMAIN language_servers :
          /\ ~language_servers[s].initialized
          /\ \E d \in DOMAIN documents : s \in documents[d].servers

\* The <<document, server>> pairs of the requests issued by the step.
IssuedPairs == {<<tasks'[r].doc, tasks'[r].srv>> : r \in Issued}

\* C14: opening a document issues, in that step, exactly one request for
\* every server attached to it that declares a diagnostic provider; a server
\* finishing its initialization issues, in that step, exactly one request for
\* every open document it is attached to if it declares a diagnostic
\* provider, and none if it does not. Neither sends a PullDiagnosticsEvent,
\* moves the debounce deadline or dispatches a closure.
C14_ImmediateTriggers ==
    [][/\ next_id'.document # next_id.document =>
             LET d == next_id.document
                 P == {<<d, s>> : s \in {s \in documents'[d].servers :
                                             language_servers[s].pull}}
             IN /\ IssuedPairs = P
                /\ Cardinality(Issued) = Cardinality(P)
                /\ \A r \in Issued : tasks'[r].origin = "open"
                /\ UNCHANGED <<timeout, hist, jobs>>
       /\ \A s \in DOMAIN language_servers \cap DOMAIN language_servers' :
             ~language_servers[s].initialized /\ language_servers'[s].initialized =>
                LET P == IF language_servers'[s].pull
                         THEN {<<d, s>> : d \in {d \in DOMAIN documents :
                                                    s \in documents[d].servers}}
                         ELSE {}
                IN /\ IssuedPairs = P
                   /\ Cardinality(Issued) = Cardinality(P)
                   /\ \A r \in Issued : tasks'[r].origin = "init"
                   /\ UNCHANGED <<timeout, hist, jobs>>
      ]_vars

\* While a PullDiagnosticsEvent waits for its full quiet period and no sweep
\* has run, a request issued by a document's opening and a request issued by
\* a server's initialization are outstanding, and an open document that the
\* initialized server is not attached to got none.
C14_Witness ==
    /\ timeout = DebounceTicks /\ hist.swept = 0 /\ jobs = <<>>
    /\ hist.churn = 0
    /\ \E q, r \in DOMAIN tasks :
          /\ tasks[q].origin = "open" /\ tasks[q].pc = "pending"
          /\ tasks[r].origin = "init" /\ tasks[r].pc = "pending"
          /\ \E d \in DOMAIN documents : tasks[r].srv \notin documents[d].servers

\* C15: a request failing with an error that is no cancellation data (not an
\* RPC error, or an RPC error without cancellation data) finishes its task in
\* that step: no request is issued, nothing is dispatched, the stored
\* diagnostics, the documents, their tokens and the views are unchanged, and
\* of the servers nothing changes but, at most, the request's progress token
\* leaving the work in flight. No request ever retries it.
C15_PlainFailure ==
    /\ [](\A r \in DOMAIN tasks :
            tasks[r].origin = "retry" =>
               tasks[tasks[r].parent].res.kind = "Cancelled")
    /\ [][\A p \in DOMAIN tasks :
              tasks[p].pc = "pending" /\ tasks'[p].res.kind \in {"Error", "Rpc"} =>
                 /\ tasks'[p].pc = "done"
                 /\ Issued = {}
                 /\ UNCHANGED <<diagnostics, documents, views, jobs, next_id>>
                 /\ DOMAIN language_servers' = DOMAIN language_servers
                 /\ \A s \in DOMAIN language_servers :
                       /\ language_servers'[s].work \in
                             {language_servers[s].work, language_servers[s].work \ {p}}
                       /\ language_servers'[s].pull = language_servers[s].pull
                       /\ language_servers'[s].initialized = language_servers[s].initialized
          ]_vars

\* A request failed with an RPC error without cancellation data on a document
\* holding token "r1" and stored diagnostics: the task is finished, token and
\* diagnostics are there, no request was issued after it and one still could be.
C15_Witness ==
    \E p \in DOMAIN tasks, d \in DOMAIN documents, s \in 1..MaxServers :
        /\ tasks[p].pc = "done" /\ tasks[p].res.kind = "Rpc"
        /\ documents[d].previous_diagnostic_id = "r1"
        /\ diagnostics[<<d, Lsp(s, NoId)>>] # <<>>
        /\ \A r \in DOMAIN tasks : r <= p
        /\ next_id.request <= MaxPulls

\* C16: processing a Partial report changes neither the stored diagnostics
\* nor any document (its cached token included) nor any view.
C16_PartialIgnored ==
    [][\A r \in DOMAIN tasks :
          Processing(r) /\ tasks[r].res.kind = "Partial" =>
             UNCHANGED <<diagnostics, documents, views>>]_vars

\* A Partial report was processed last, for a document that held token "r1"
\* and stored diagnostics: both are still there.
C16_Witness ==
    \E r \in DOMAIN tasks, d \in DOMAIN documents, s \in 1..MaxServers :
        /\ tasks[r].pc = "done" /\ tasks[r].res.kind = "Partial"
        /\ \A q \in DOMAIN tasks : q <= r
        /\ \A q \in DOMAIN tasks : q # r => tasks[q].pc = "done"
        /\ documents[d].previous_diagnostic_id = "r1"
        /\ diagnostics[<<d, Lsp(s, NoId)>>] # <<>>

\* C17: a document is opened with no cached token; afterwards the token of an
\* open document changes in exactly the steps that process a Full or an
\* Unchanged report of a request of that document, and becomes that report's
\* result id, absent if it has none. So the token is always the id of the
\* report processed last, in the order of the dispatch queue, and no failure,
\* cancellation, retry or sweep changes it.
C17_TokenIsLastReport ==
    [][/\ \A d \in DOMAIN documents' \ DOMAIN documents :
             documents'[d].previous_diagnostic_id = NoId
       /\ \A d \in DOMAIN documents \cap DOMAIN documents' :
             LET R == {r \in DOMAIN tasks :
                          /\ Processing(r)
                          /\ tasks[r].doc = d
                          /\ tasks[r].res.kind \in {"Full", "Unchanged"}}
             IN IF R # {}
                THEN \A r \in R : documents'[d].previous_diagnostic_id = tasks[r].res.id
                ELSE documents'[d].previous_diagnostic_id =
                        documents[d].previous_diagnostic_id
      ]_vars

\* Requests 1 and 2 of one document were outstanding together; the Full
\* report of request 2, issued later, was processed first and the Unchanged
\* report of request 1 last: the token is the one of request 1's report.
C17_Witness ==
    \E d \in DOMAIN documents :
        /\ {1, 2} \subseteq DOMAIN tasks
        /\ tasks[1].pc = "done" /\ tasks[1].res.kind = "Unchanged"
        /\ tasks[2].pc = "done" /\ tasks[2].res.kind = "Full" /\ tasks[2].res.id = "r1"
        /\ \E s \in 1..MaxServers : diagnostics[<<d, Lsp(s, NoId)>>] = Items(2)
        /\ documents[d].previous_diagnostic_id = "r2"

\* The request a retry chain started with: a retry belongs to the chain of
\* the request it retries.
RECURSIVE Root(_)
Root(r) == IF tasks[r].origin = "retry" THEN Root(tasks[r].parent) ELSE r

\* The request is outstanding: sent and not yet answered.
InFlight(r) == tasks[r].pc = "pending"

\* C18: of one retry chain at most one request is in flight at any time, and
\* a retry exists only once the request it retries is finished (answered
\* with a failure, slept through the backoff, re-validated by its closure).
\* So two requests of one pair in flight together belong to different
\* chains: one of them goes back to another issuance point.
C18_OneInFlightPerChain ==
    /\ \A q, r \in DOMAIN tasks :
          q # r /\ InFlight(q) /\ InFlight(r) => Root(q) # Root(r)
    /\ \A r \in DOMAIN tasks :
          tasks[r].origin = "retry" =>
             /\ tasks[r].parent \in DOMAIN tasks
             /\ tasks[r].parent < r
             /\ tasks[tasks[r].parent].pc = "done"
             /\ tasks[tasks[r].parent].res.kind = "Cancelled"

\* Two requests of one pair are in flight together: request 2, the retry of
\* request 1, and request 3, issued by a debounce sweep.
C18_Witness ==
    /\ DOMAIN tasks = {1, 2, 3}
    /\ InFlight(2) /\ tasks[2].origin = "retry" /\ tasks[2].parent = 1
    /\ InFlight(3) /\ tasks[3].origin = "sweep"
    /\ tasks[2].doc = tasks[3].doc /\ tasks[2].srv = tasks[3].srv

\* C19: a document has one token slot, whatever the server. Every request
\* issued for a document, to any server, carries the document's cached token,
\* and a Full or Unchanged report processed for an open document, from any
\* server, makes its result id that cached token.
C19_SharedTokenSlot ==
    [][/\ \A r \in Issued :
             tasks'[r].prev = documents'[tasks'[r].doc].previous_diagnostic_id
       /\ \A r \in DOMAIN tasks :
             /\ Processing(r)
             /\ tasks[r].res.kind \in {"Full", "Unchanged"}
             /\ tasks[r].doc \in DOMAIN documents
             => documents'[tasks[r].doc].previous_diagnostic_id = tasks[r].res.id
      ]_vars

\* The only report processed so far is a Full report of server 1 with result
\* id "r1", and a request outstanding at server 2 carries "r1" as its
\* previous result id.
C19_Witness ==
    \E d \in DOMAIN documents, q, r \in DOMAIN tasks :
        /\ tasks[q].pc = "done" /\ tasks[q].res.kind = "Full" /\ tasks[q].res.id = "r1"
        /\ diagnostics[<<d, Lsp(1, NoId)>>] = Items(q)
        /\ \A p \in DOMAIN tasks \ {q} : tasks[p].res.kind \notin {"Full", "Unchanged"}
        /\ tasks[r].pc = "pending" /\ tasks[r].doc = d /\ tasks[r].srv = 2
        /\ tasks[r].prev = "r1"
        /\ {1, 2} \subseteq documents[d].servers

\* C20: a request holds, from the step that issues it, the cached token of
\* its document, its document's id, its server's id and the provider made of
\* the server's id and the identifier the server declares in that step; while
\* its task lives none of them changes, whatever becomes of the document or
\* the server. Its report is applied to them: of the stored diagnostics only
\* those of the captured document and provider change, of the documents only
\* the captured one. A retry is issued for the document and server of the
\* request it retries, with the token cached when it is issued.
C20_CaptureByValue ==
    [][/\ \A r \in Issued :
             LET t == tasks'[r] IN
             /\ t.prev = documents'[t.doc].previous_diagnostic_id
             /\ t.provider = Lsp(t.srv, language_servers'[t.srv].identifier)
             /\ t.origin = "retry" =>
                   /\ t.doc = tasks[t.parent].doc
                   /\ t.srv = tasks[t.parent].srv
       /\ \A r \in DOMAIN tasks :
             tasks[r].pc # "done" /\ tasks'[r].pc # "done" =>
                /\ tasks'[r].doc = tasks[r].doc
                /\ tasks'[r].srv = tasks[r].srv
                /\ tasks'[r].provider = tasks[r].provider
                /\ tasks'[r].prev = tasks[r].prev
       /\ \A r \in DOMAIN tasks :
             Processing(r) =>
                LET t == tasks[r] IN
                /\ \A k \in Keys \ {<<t.doc, t.provider>>} :
                      diagnostics'[k] = diagnostics[k]
                /\ t.res.kind = "Full" =>
                      diagnostics'[<<t.doc, t.provider>>] = t.res.items
                /\ DOMAIN documents' = DOMAIN documents
                /\ \A d \in DOMAIN documents \ {t.doc} : documents'[d] = documents[d]
      ]_vars

\* Requests 1 and 2 were issued when document 1 was opened, with no token,
\* to servers declaring no identifier. Server 2 now declares identifier
\* "pull", yet the Full report of request 2 is stored under the provider
\* without identifier; request 3, the retry of request 1, carries the token
\* "r1" that report left and the provider server 1 declares now.
C20_Witness ==
    /\ DOMAIN tasks = {1, 2, 3}
    /\ 1 \in DOMAIN documents
    /\ {1, 2} \subseteq DOMAIN language_servers
    /\ tasks[3].pc = "pending" /\ tasks[3].origin = "retry" /\ tasks[3].parent = 1
    /\ tasks[3].prev = "r1"
    /\ tasks[3].provider = Lsp(1, "pull")
    /\ tasks[2].pc = "done" /\ tasks[2].res.kind = "Full"
    /\ language_servers[2].identifier = "pull"
    /\ diagnostics[<<1, Lsp(2, NoId)>>] = Items(2)
    /\ diagnostics[<<1, Lsp(2, "pull")>>] = <<>>

====
